---- MODULE Spec2Model ----
(***************************************************************************)
(* Model of the Khmer text summarization backend:                          *)
(*   backend/model_handler.py  (class KhmerSummarizer)                     *)
(*   backend/app.py            (Flask routes /api/summarize, /api/health)  *)
(*                                                                         *)
(* Strings are sequences of Unicode code points.  A score                  *)
(*   len(sent) * (1 - i * 0.1 / n)                                         *)
(* is kept as the integer len(sent) * (10*n - i), i.e. the score times     *)
(* 10*n; all scores of one call share n, so comparisons are unchanged.     *)
(* For n <= 3 sentences of up to 59 characters, and for n = 4 sentences of *)
(* up to 36 characters, the IEEE double comparison of two scores agrees    *)
(* with the exact one; the texts drawn below stay inside that range.       *)
(* Likewise current_length >= max_length * 0.8 is                          *)
(* 10 * current_length >= 8 * max_length for the lengths used here.        *)
(***************************************************************************)
EXTENDS Integers, Sequences, FiniteSets, TLC

----------------------------------------------------------------------------
(* Characters *)

SP == 32
KHAN == 6100
BARIYOOSAN == 6101

Delims == {KHAN, BARIYOOSAN}

Rep(c, k) == [i \in 1..k |-> c]

----------------------------------------------------------------------------
(* Bounds and input sets *)

MaxPieces == 3

Pieces ==
  { <<SP>>, <<KHAN>>, <<BARIYOOSAN>>, <<98>>,
    Rep(97, 4) \o <<KHAN>>, Rep(97, 4) \o <<BARIYOOSAN>>,
    Rep(97, 14) \o <<KHAN>>, Rep(97, 15) \o <<KHAN>>,
    Rep(98, 14) \o <<KHAN>> }

RECURSIVE Concats(_)
Concats(k) ==
  IF k = 0 THEN { <<>> }
  ELSE LET prev == Concats(k - 1)
       IN prev \cup { t \o p : t \in prev, p \in Pieces }

Texts == Concats(MaxPieces)

MaxLens == {-1, 0, 2, 10, 16}

MaxReqPieces == 2

ReqPieces ==
  { <<SP>>, <<KHAN>>, <<98>>,
    Rep(97, 4) \o <<KHAN>>, Rep(97, 4) \o <<BARIYOOSAN>>,
    Rep(97, 14) }

RECURSIVE ReqConcats(_)
ReqConcats(k) ==
  IF k = 0 THEN { <<>> }
  ELSE LET prev == ReqConcats(k - 1)
       IN prev \cup { t \o p : t \in prev, p \in ReqPieces }

ReqTexts == ReqConcats(MaxReqPieces)

\* values of the max_length / min_length members of a request body
LengthFields(ints) ==
  { [t |-> "missing", v |-> 0], [t |-> "bad", v |-> 0] }
    \cup { [t |-> "int", v |-> n] : n \in ints }

\* request bodies: with a text member, or without one
Bodies ==
  { [hasText |-> TRUE, text |-> x, max_length |-> a, min_length |-> b] :
      x \in ReqTexts,
      a \in LengthFields({0, 2, 10}), b \in LengthFields({1}) }
  \cup
  { [hasText |-> FALSE, text |-> <<>>, max_length |-> a, min_length |-> b] :
      a \in LengthFields({0, 2, 10}), b \in LengthFields({1}) }

\* what the opaque generation library may do on one call
NeuralRuns ==
  { [raises |-> r, out |-> <<>>] : r \in {"tokenize", "generate", "decode"} }
    \cup { [raises |-> "none", out |-> o] : o \in { <<>>, <<97, 98>> } }

\* what the file system and the model library do at construction
Envs ==
  [ load : {"no_path", "listdir_raises", "no_weights", "from_pretrained_raises",
            "to_device_raises", "eval_raises", "ok"},
    tokOk : BOOLEAN ]

----------------------------------------------------------------------------
(* Python string primitives *)

RECURSIVE LStrip(_)
LStrip(s) ==
  IF s # <<>> /\ Head(s) = SP THEN LStrip(Tail(s)) ELSE s

RECURSIVE RStrip(_)
RStrip(s) ==
  IF s # <<>> /\ s[Len(s)] = SP THEN RStrip(SubSeq(s, 1, Len(s) - 1)) ELSE s

Strip(s) == RStrip(LStrip(s))

\* text[:k]
PySlice(text, k) ==
  IF k >= 0
  THEN SubSeq(text, 1, IF k < Len(text) THEN k ELSE Len(text))
  ELSE SubSeq(text, 1, IF Len(text) + k > 0 THEN Len(text) + k ELSE 0)

\* a < b on str
StrLess(a, b) ==
  \E k \in 1..Len(b) :
     /\ k <= Len(a) + 1
     /\ \A j \in 1..(k - 1) : a[j] = b[j]
     /\ IF k = Len(a) + 1 THEN TRUE ELSE a[k] < b[k]

\* re.split(r'[។៕]', text)
RECURSIVE ReSplit(_)
ReSplit(text) ==
  IF \A i \in 1..Len(text) : text[i] \notin Delims
  THEN << text >>
  ELSE LET p == CHOOSE i \in 1..Len(text) :
                  /\ text[i] \in Delims
                  /\ \A j \in 1..(i - 1) : text[j] \notin Delims
       IN << SubSeq(text, 1, p - 1) >> \o ReSplit(SubSeq(text, p + 1, Len(text)))

----------------------------------------------------------------------------
(* KhmerSummarizer._extractive_summarize *)

\* as Sentences, without the "if s.strip()" filter
SentencesUnfiltered(text) ==
  LET frags == ReSplit(text)
  IN [i \in 1..Len(frags) |-> Strip(frags[i])]

Sentences(text) ==
  LET frags == ReSplit(text)
      stripped == [i \in 1..Len(frags) |-> Strip(frags[i])]
  IN SelectSeq(stripped, LAMBDA s : s # <<>>)

ScoreOf(sent, i, n) == Len(sent) * (10 * n - i)

ScoredSentences(sentences) ==
  [k \in 1..Len(sentences) |->
     [score |-> ScoreOf(sentences[k], k - 1, Len(sentences)),
      sent  |-> sentences[k],
      idx   |-> k - 1]]

\* t < u on the tuples (score, sent, i)
TupleLess(t, u) ==
  \/ t.score < u.score
  \/ /\ t.score = u.score
     /\ \/ StrLess(t.sent, u.sent)
        \/ t.sent = u.sent /\ t.idx < u.idx

RECURSIVE InsertDesc(_, _)
InsertDesc(sorted, x) ==
  IF sorted = <<>> THEN << x >>
  ELSE IF TupleLess(Head(sorted), x) THEN << x >> \o sorted
  ELSE << Head(sorted) >> \o InsertDesc(Tail(sorted), x)

\* scored_sentences.sort(reverse=True)
RECURSIVE SortReverse(_)
SortReverse(s) ==
  IF s = <<>> THEN <<>>
  ELSE InsertDesc(SortReverse(SubSeq(s, 1, Len(s) - 1)), s[Len(s)])

\* the selection loop; cur is current_length, the result is summary_parts
RECURSIVE SelectLoop(_, _, _, _, _)
SelectLoop(scored, k, parts, cur, max_length) ==
  IF k > Len(scored) THEN parts
  ELSE LET sent_with_delimiter == scored[k].sent \o << KHAN >>
           fits == cur + Len(sent_with_delimiter) <= max_length
           parts2 == IF fits
                     THEN Append(parts, [idx |-> scored[k].idx, s |-> sent_with_delimiter])
                     ELSE parts
           cur2 == IF fits THEN cur + Len(sent_with_delimiter) ELSE cur
       IN IF 10 * cur2 >= 8 * max_length
          THEN parts2
          ELSE SelectLoop(scored, k + 1, parts2, cur2, max_length)

RECURSIVE InsertByIdx(_, _)
InsertByIdx(sorted, x) ==
  IF sorted = <<>> THEN << x >>
  ELSE IF x.idx < Head(sorted).idx THEN << x >> \o sorted
  ELSE << Head(sorted) >> \o InsertByIdx(Tail(sorted), x)

RECURSIVE InsertionSortByIdx(_)
InsertionSortByIdx(parts) ==
  IF parts = <<>> THEN <<>>
  ELSE InsertByIdx(InsertionSortByIdx(SubSeq(parts, 1, Len(parts) - 1)),
                   parts[Len(parts)])

\* as SortByIdx, leaving summary_parts in selection order
SortByIdxSkipped(parts) == parts

\* summary_parts.sort(key=lambda x: x[0])
SortByIdx(parts) == InsertionSortByIdx(parts)

\* ' '.join([part[1] for part in summary_parts])
RECURSIVE Join(_)
Join(parts) ==
  IF parts = <<>> THEN <<>>
  ELSE IF Len(parts) = 1 THEN parts[1].s
  ELSE parts[1].s \o << SP >> \o Join(Tail(parts))

SortedScored(text) == SortReverse(ScoredSentences(Sentences(text)))

PickedParts(text, max_length) ==
  IF Sentences(text) = <<>> THEN <<>>
  ELSE SelectLoop(SortedScored(text), 1, <<>>, 0, max_length)

\* as ExtractiveSummarize, returning the joined summary even when it is empty
ExtractiveSummarizeNoTruncation(text, max_length) ==
  IF Sentences(text) = <<>> THEN PySlice(text, max_length)
  ELSE Join(SortByIdx(PickedParts(text, max_length)))

ExtractiveSummarize(text, max_length) ==
  IF Sentences(text) = <<>> THEN PySlice(text, max_length)
  ELSE LET summary == Join(SortByIdx(PickedParts(text, max_length)))
       IN IF summary # <<>> THEN summary ELSE PySlice(text, max_length)

----------------------------------------------------------------------------
(* KhmerSummarizer construction and summarize *)

\* as LoadModel, going on to load the model when no weight file is listed
LoadModelIgnoringWeights(e) ==
  IF e.load = "no_path" THEN [model |-> FALSE, tokenizer |-> FALSE]
  ELSE IF e.load = "listdir_raises" THEN [model |-> FALSE, tokenizer |-> FALSE]
  ELSE IF e.load = "from_pretrained_raises" THEN [model |-> FALSE, tokenizer |-> e.tokOk]
  ELSE [model |-> TRUE, tokenizer |-> e.tokOk]

\* load_model: the handles after the call
LoadModel(e) ==
  IF e.load = "no_path" THEN [model |-> FALSE, tokenizer |-> FALSE]
  ELSE IF e.load = "listdir_raises" THEN [model |-> FALSE, tokenizer |-> FALSE]
  ELSE IF e.load = "no_weights" THEN [model |-> FALSE, tokenizer |-> e.tokOk]
  ELSE IF e.load = "from_pretrained_raises" THEN [model |-> FALSE, tokenizer |-> e.tokOk]
  ELSE [model |-> TRUE, tokenizer |-> e.tokOk]

\* __init__: the handles after construction
Constructor(e) ==
  IF e.load # "no_path" THEN LoadModel(e)
  ELSE [model |-> FALSE, tokenizer |-> FALSE]

NoCall ==
  [invoked |-> FALSE, kind |-> "none", path |-> "none", raisedAt |-> "none",
   value |-> <<>>, max_length |-> 0]

\* as Summarize, with the tokenizer call outside the try block
SummarizeTokenizerUnguarded(mdl, tok, t, max_length, min_length, nz) ==
  IF ~mdl
  THEN [invoked |-> TRUE, kind |-> "return", path |-> "extractive", raisedAt |-> "none",
        value |-> ExtractiveSummarize(t, max_length), max_length |-> max_length]
  ELSE IF ~tok
  THEN [invoked |-> TRUE, kind |-> "raise", path |-> "neural", raisedAt |-> "tokenize",
        value |-> <<>>, max_length |-> max_length]
  ELSE IF nz.raises = "tokenize"
  THEN [invoked |-> TRUE, kind |-> "raise", path |-> "neural", raisedAt |-> "tokenize",
        value |-> <<>>, max_length |-> max_length]
  ELSE IF nz.raises # "none"
  THEN [invoked |-> TRUE, kind |-> "return", path |-> "fallback", raisedAt |-> nz.raises,
        value |-> ExtractiveSummarize(t, max_length), max_length |-> max_length]
  ELSE [invoked |-> TRUE, kind |-> "return", path |-> "neural", raisedAt |-> "none",
        value |-> nz.out, max_length |-> max_length]

\* summarize(text, max_length, min_length) with model/tokenizer handles mdl/tok;
\* nz is what the generation library does on this call
Summarize(mdl, tok, t, max_length, min_length, nz) ==
  IF ~mdl
  THEN [invoked |-> TRUE, kind |-> "return", path |-> "extractive", raisedAt |-> "none",
        value |-> ExtractiveSummarize(t, max_length), max_length |-> max_length]
  ELSE IF ~tok
  THEN [invoked |-> TRUE, kind |-> "return", path |-> "fallback", raisedAt |-> "tokenize",
        value |-> ExtractiveSummarize(t, max_length), max_length |-> max_length]
  ELSE IF nz.raises # "none"
  THEN [invoked |-> TRUE, kind |-> "return", path |-> "fallback", raisedAt |-> nz.raises,
        value |-> ExtractiveSummarize(t, max_length), max_length |-> max_length]
  ELSE [invoked |-> TRUE, kind |-> "return", path |-> "neural", raisedAt |-> "none",
        value |-> nz.out, max_length |-> max_length]

----------------------------------------------------------------------------
(* app.py *)

DefaultMaxLength == 150
DefaultMinLength == 50

\* int(data.get(name, default))
PyInt(field, default) ==
  IF field.t = "missing" THEN [ok |-> TRUE, v |-> default]
  ELSE IF field.t = "int" THEN [ok |-> TRUE, v |-> field.v]
  ELSE [ok |-> FALSE, v |-> 0]

Response(status, error, summary, original_length) ==
  [status |-> status, error |-> error, summary |-> summary,
   original_length |-> original_length, summary_length |-> Len(summary)]

\* as ApiSummarize, testing the trimmed text for emptiness
ApiSummarizeTrimFirst(body, mdl, tok, nz) ==
  LET t == IF body.hasText THEN body.text ELSE <<>>
      max_length == PyInt(body.max_length, DefaultMaxLength)
      min_length == PyInt(body.min_length, DefaultMinLength)
  IN IF ~max_length.ok \/ ~min_length.ok
     THEN [resp |-> Response(500, "internal", <<>>, 0), call |-> NoCall]
     ELSE IF Strip(t) = <<>>
     THEN [resp |-> Response(400, "no_text", <<>>, 0), call |-> NoCall]
     ELSE IF Len(Strip(t)) < 10
     THEN [resp |-> Response(400, "too_short", <<>>, 0), call |-> NoCall]
     ELSE LET c == Summarize(mdl, tok, t, max_length.v, min_length.v, nz)
          IN IF c.kind = "return"
             THEN [resp |-> Response(200, "none", c.value, Len(t)), call |-> c]
             ELSE [resp |-> Response(500, "internal", <<>>, 0), call |-> c]

\* the /api/summarize handler: the response and the record of the summarize call
ApiSummarize(body, mdl, tok, nz) ==
  LET t == IF body.hasText THEN body.text ELSE <<>>
      max_length == PyInt(body.max_length, DefaultMaxLength)
      min_length == PyInt(body.min_length, DefaultMinLength)
  IN IF ~max_length.ok \/ ~min_length.ok
     THEN [resp |-> Response(500, "internal", <<>>, 0), call |-> NoCall]
     ELSE IF t = <<>>
     THEN [resp |-> Response(400, "no_text", <<>>, 0), call |-> NoCall]
     ELSE IF Len(Strip(t)) < 10
     THEN [resp |-> Response(400, "too_short", <<>>, 0), call |-> NoCall]
     ELSE LET c == Summarize(mdl, tok, t, max_length.v, min_length.v, nz)
          IN IF c.kind = "return"
             THEN [resp |-> Response(200, "none", c.value, Len(t)), call |-> c]
             ELSE [resp |-> Response(500, "internal", <<>>, 0), call |-> c]

\* the /api/health handler
ApiHealth(mdl, tok) ==
  [status |-> "ok", model_loaded |-> mdl, tokenizer_loaded |-> tok]

----------------------------------------------------------------------------
(* State *)

VARIABLES
  pc,         \* server: "init" | "idle" | "responded"
  env,        \* what the model directory and library do at construction
  model,      \* summarizer.model is not None
  tokenizer,  \* summarizer.tokenizer is not None
  route,      \* endpoint of the request being answered
  req,        \* body of the /api/summarize request being answered
  resp,       \* its response
  call,       \* the summarizer.summarize call made while answering it
  health,     \* response of /api/health
  xpc,        \* position of the extractive call: "call" | "done"
  text,       \* argument text
  maxLength,  \* argument max_length
  scored,     \* scored_sentences after the sort
  picked,     \* summary_parts in selection order
  parts,      \* summary_parts after the sort by original index
  result      \* returned string

xvars == << xpc, text, maxLength, scored, picked, parts, result >>

svars == << pc, env, model, tokenizer, route, req, resp, call, health >>

vars == << pc, env, model, tokenizer, route, req, resp, call, health,
          xpc, text, maxLength, scored, picked, parts, result >>

NoBody ==
  [hasText |-> FALSE, text |-> <<>>,
   max_length |-> [t |-> "missing", v |-> 0], min_length |-> [t |-> "missing", v |-> 0]]

NoResponse == Response(0, "none", <<>>, 0)

NoHealth == [status |-> "none", model_loaded |-> FALSE, tokenizer_loaded |-> FALSE]

ServerIdle ==
  /\ model = FALSE
  /\ tokenizer = FALSE
  /\ route = "none"
  /\ req = NoBody
  /\ resp = NoResponse
  /\ call = NoCall
  /\ health = NoHealth

----------------------------------------------------------------------------
(* The extractive path as a pure function of (text, max_length) *)

InitExtract ==
  /\ pc = "unused"
  /\ env = [load |-> "no_path", tokOk |-> FALSE]
  /\ ServerIdle
  /\ xpc = "call"
  /\ text \in Texts
  /\ maxLength \in MaxLens
  /\ scored = <<>>
  /\ picked = <<>>
  /\ parts = <<>>
  /\ result = <<>>

ExtractiveCall ==
  /\ xpc = "call"
  /\ xpc' = "done"
  /\ scored' = SortedScored(text)
  /\ picked' = PickedParts(text, maxLength)
  /\ parts' = SortByIdx(PickedParts(text, maxLength))
  /\ result' = ExtractiveSummarize(text, maxLength)
  /\ UNCHANGED << text, maxLength >>
  /\ UNCHANGED svars

NextExtract == ExtractiveCall

SpecExtract == InitExtract /\ [][NextExtract]_vars

----------------------------------------------------------------------------
(* The server: construction, then requests *)

Init ==
  /\ pc = "init"
  /\ env \in Envs
  /\ ServerIdle
  /\ xpc = "unused"
  /\ text = <<>>
  /\ maxLength = 0
  /\ scored = <<>>
  /\ picked = <<>>
  /\ parts = <<>>
  /\ result = <<>>

\* summarizer = KhmerSummarizer(model_path=...)
Construct ==
  /\ pc = "init"
  /\ pc' = "idle"
  /\ model' = Constructor(env).model
  /\ tokenizer' = Constructor(env).tokenizer
  /\ UNCHANGED << env, route, req, resp, call, health >>
  /\ UNCHANGED xvars

\* GET /
GetIndex ==
  /\ pc = "idle"
  /\ pc' = "responded"
  /\ route' = "index"
  /\ UNCHANGED << env, model, tokenizer, req, resp, call, health >>
  /\ UNCHANGED xvars

\* POST /api/summarize
PostSummarize ==
  /\ pc = "idle"
  /\ \E body \in Bodies :
       \E nz \in (IF model /\ tokenizer THEN NeuralRuns
                  ELSE { [raises |-> "none", out |-> <<>>] }) :
          /\ req' = body
          /\ resp' = ApiSummarize(body, model, tokenizer, nz).resp
          /\ call' = ApiSummarize(body, model, tokenizer, nz).call
  /\ pc' = "responded"
  /\ route' = "summarize"
  /\ UNCHANGED << env, model, tokenizer, health >>
  /\ UNCHANGED xvars

\* GET /api/health
GetHealth ==
  /\ pc = "idle"
  /\ pc' = "responded"
  /\ route' = "health"
  /\ health' = ApiHealth(model, tokenizer)
  /\ UNCHANGED << env, model, tokenizer, req, resp, call >>
  /\ UNCHANGED xvars

\* the response is sent; request-scoped data is dropped
Respond ==
  /\ pc = "responded"
  /\ pc' = "idle"
  /\ route' = "none"
  /\ req' = NoBody
  /\ resp' = NoResponse
  /\ call' = NoCall
  /\ health' = NoHealth
  /\ UNCHANGED << env, model, tokenizer >>
  /\ UNCHANGED xvars

Next ==
  \/ Construct
  \/ GetIndex
  \/ PostSummarize
  \/ GetHealth
  \/ Respond

Spec == Init /\ [][Next]_vars

----------------------------------------------------------------------------
(* Properties *)

Answered == pc = "responded" /\ route = "summarize"

ReqMaxLength == PyInt(req.max_length, DefaultMaxLength)
ReqMinLength == PyInt(req.min_length, DefaultMinLength)

NoDelimiter(s) == \A i \in 1..Len(s) : s[i] \notin Delims

PickedIdx == { picked[k].idx : k \in 1..Len(picked) }

\* the sentences with index in idxs, each with its delimiter, joined by one
\* space in ascending index order
RECURSIVE JoinAscending(_, _)
JoinAscending(idxs, sentences) ==
  IF idxs = {} THEN <<>>
  ELSE LET i == CHOOSE m \in idxs : \A o \in idxs : m <= o
           rest == idxs \ {i}
       IN IF rest = {} THEN sentences[i + 1] \o << KHAN >>
          ELSE sentences[i + 1] \o << KHAN, SP >> \o JoinAscending(rest, sentences)

\* C1: in the extractive path, for every text of length >= 10 and every valid
\* (non-negative) max_length the returned string, separators included, is at
\* most max_length characters long.
C1_LengthWithinMaxLength ==
  (xpc = "done" /\ Len(text) >= 10 /\ maxLength >= 0) => Len(result) <= maxLength

\* C2: summarize never propagates an exception: when the model is present and
\* a step of the neural path raises (the tokenizer handle being absent
\* included), the call returns the extractive result for the same text and
\* max_length, and the request is answered with it.
C2_NeuralFailureFallsBack ==
  (Answered /\ call.invoked)
    => /\ call.kind = "return"
       /\ (model /\ (~tokenizer \/ call.raisedAt # "none"))
            => /\ call.value = ExtractiveSummarize(req.text, ReqMaxLength.v)
               /\ resp.status = 200
               /\ resp.summary = call.value

C2_Witness ==
  /\ Answered
  /\ call.invoked
  /\ model
  /\ ~tokenizer
  /\ call.raisedAt = "tokenize"
  /\ resp.status = 200
  /\ resp.summary # <<>>

\* C3: after construction the model handle is present if and only if every
\* step of the model load succeeded.
C3_LoadedIffLoadSucceeded ==
  pc \in {"idle", "responded"} => (model <=> env.load = "ok")

\* C4: when no recognized weight file is in the model path at construction,
\* the health endpoint reports model_loaded = false and every summarize call
\* takes the extractive path, in every later state; no request changes the
\* model or tokenizer handle.
C4_NoWeightsStaysExtractive ==
  /\ [](  (pc \in {"idle", "responded"} /\ env.load = "no_weights")
            => /\ ~model
               /\ route = "health" => ~health.model_loaded
               /\ call.invoked => call.path = "extractive" )
  /\ [][ (pc \in {"idle", "responded"})
           => (model' = model /\ tokenizer' = tokenizer) ]_vars

C4_Witness ==
  /\ env.load = "no_weights"
  /\ env.tokOk
  /\ Answered
  /\ call.invoked
  /\ call.path = "extractive"

\* C5 (as stated): a text with none of the two delimiters yields an empty
\* unit list and the extractive path returns the first max_length characters
\* of the raw text.
C5_NoDelimiterEmptyUnits ==
  (xpc = "done" /\ NoDelimiter(text))
    => scored = <<>> /\ result = PySlice(text, maxLength)

\* C5 (amended): a text with none of the two delimiters yields an empty unit
\* list only when it is empty or all whitespace, and then the result is
\* text[:max_length]; otherwise it yields the one unit strip(text), and the
\* result is that unit with the delimiter appended when this fits in
\* max_length, text[:max_length] when it does not.
C5_NoDelimiterOneUnit ==
  (xpc = "done" /\ NoDelimiter(text))
    => IF Strip(text) = <<>>
       THEN scored = <<>> /\ result = PySlice(text, maxLength)
       ELSE /\ Len(scored) = 1
            /\ scored[1].sent = Strip(text)
            /\ result = IF Len(Strip(text)) + 1 <= maxLength
                        THEN Strip(text) \o << KHAN >>
                        ELSE PySlice(text, maxLength)

C5_Witness ==
  /\ xpc = "done"
  /\ NoDelimiter(text)
  /\ Strip(text) # <<>>
  /\ Strip(text) # text
  /\ result = Strip(text) \o << KHAN >>

\* C6: when at least one unit is selected, the output holds the selected
\* sentences in strictly ascending original index, each exactly once,
\* whatever the order of selection.
C6_OutputInOriginalOrder ==
  (xpc = "done" /\ picked # <<>>)
    => /\ Cardinality(PickedIdx) = Len(picked)
       /\ Len(parts) = Len(picked)
       /\ { parts[k].idx : k \in 1..Len(parts) } = PickedIdx
       /\ \A k \in 1..(Len(parts) - 1) : parts[k].idx < parts[k + 1].idx
       /\ result = JoinAscending(PickedIdx, Sentences(text))

C6_Witness ==
  /\ xpc = "done"
  /\ Len(picked) >= 2
  /\ picked[1].idx > picked[2].idx
  /\ parts[1].idx < parts[2].idx

\* C7: units with equal scores stay in creation order in the descending sort:
\* the one with the smaller original index is considered first.
C7_TiesKeepCreationOrder ==
  xpc = "done"
    => \A p, q \in 1..Len(scored) :
         (p < q /\ scored[p].score = scored[q].score)
           => scored[p].idx < scored[q].idx

\* C8 (as stated): summarize returns a non-empty string for every text that
\* is non-empty after trimming and at least 10 characters long, for every
\* max_length and min_length, in either facade state.
C8_SummaryNeverEmpty ==
  (Answered /\ call.invoked /\ Len(Strip(req.text)) >= 10)
    => call.kind = "return" /\ call.value # <<>>

\* C8 (amended): for such a text summarize returns a non-empty string
\* whenever max_length >= 1 and the extractive path produces the result
\* (model absent, or a step of the neural path raised).
C8_ExtractiveSummaryNonEmpty ==
  ( /\ Answered
    /\ call.invoked
    /\ Len(Strip(req.text)) >= 10
    /\ ReqMaxLength.v >= 1
    /\ call.path \in {"extractive", "fallback"} )
    => /\ call.kind = "return"
       /\ call.value # <<>>
       /\ resp.summary # <<>>

C8_Witness ==
  /\ Answered
  /\ call.invoked
  /\ call.path = "extractive"
  /\ ReqMaxLength.v >= 1
  /\ Len(req.text) > ReqMaxLength.v
  /\ resp.summary = PySlice(req.text, ReqMaxLength.v)
  /\ resp.summary # <<>>

\* C9: every POST /api/summarize whose text is missing or, trimmed, shorter
\* than 10 characters is answered 400 with an error message and summarize is
\* not invoked, whatever max_length and min_length hold.
C9_InvalidTextIs400 ==
  (Answered /\ (~req.hasText \/ Len(Strip(req.text)) < 10))
    => /\ resp.status = 400
       /\ resp.error \in {"no_text", "too_short"}
       /\ ~call.invoked

\* C10 (as stated): a request whose text is non-empty but empty after
\* trimming is answered 400 with the no-text message, and summarize is not
\* invoked.
C10_BlankTextIsNoText ==
  (Answered /\ req.hasText /\ req.text # <<>> /\ Strip(req.text) = <<>>)
    => /\ resp.status = 400
       /\ resp.error = "no_text"
       /\ ~call.invoked

\* C10 (amended): a request whose text is non-empty but empty after trimming
\* never gets the no-text message and never invokes summarize: it is
\* answered 400 with the text-too-short message, or 500 when max_length or
\* min_length does not convert to an integer.
C10_BlankTextIsTooShort ==
  (Answered /\ req.hasText /\ req.text # <<>> /\ Strip(req.text) = <<>>)
    => /\ ~call.invoked
       /\ resp.error # "no_text"
       /\ IF ReqMaxLength.ok /\ ReqMinLength.ok
          THEN resp.status = 400 /\ resp.error = "too_short"
          ELSE resp.status = 500

C10_Witness ==
  /\ Answered
  /\ req.hasText
  /\ req.text = << SP, SP >>
  /\ resp.status = 400
  /\ resp.error = "too_short"
  /\ ~call.invoked

====
